---- MODULE Spec2Model ----
(***************************************************************************)
(* Model of src/script.js: the shared state container, the theme store,   *)
(* the cart store with its localStorage mirror, the paginated catalog     *)
(* loader with the load-more control, and the contact form.               *)
(*                                                                         *)
(* Handlers run to completion, so every event handler is one action.  A   *)
(* handler is written as a function from the "world" it touches (state,   *)
(* localStorage and the DOM nodes it reads or writes) to the world it     *)
(* leaves, so that the calls a handler makes compose in source order.     *)
(***************************************************************************)
EXTENDS Integers, Sequences, FiniteSets, TLC

VARIABLES
  pc,            \* position of the page: "unloaded", "crashed", "evaluated", "ready"
  state,         \* the global state object (script.js 2-9)
  localStorage,  \* the two persisted keys, theme and cart
  dataTheme,     \* document.documentElement's data-theme attribute
  loadMoreBtn,   \* elements.loadMoreBtn: disabled, style.display, textContent
  cartCount,     \* elements.cartCount.textContent
  fetchPending,  \* number of fetchProducts() promises awaited by loadProducts calls
  fault,         \* the last exception that left a handler uncaught
  nextId,        \* source of fresh identifiers for utils.generateId
  restarts,      \* page reloads so far
  toggleTrace,   \* history: the theme triples seen before the latest toggles
  lastRequest,   \* history: the latest load request and how it ended
  formFields,    \* the contact form's inputs: value, required, error display
  debounce,      \* the inputs whose debounced input listener has a timer running
  submitBtn,     \* the contact form's submit button: disabled, textContent
  pendingSends,  \* the submitForm calls awaiting their timer: each one's originalText
  lastEvent      \* history: whether the form event handled last was a submit

vars == <<pc, state, localStorage, dataTheme, loadMoreBtn, cartCount,
          fetchPending, fault, nextId, restarts, toggleTrace, lastRequest,
          formFields, debounce, submitBtn, pendingSends, lastEvent>>

-----------------------------------------------------------------------------
(* Bounds of the exploration *)

MaxRestarts == 1
MaxCartItems == 3
MaxPage == 3
MaxCards == 1
MaxPendingSends == 2
MaxTimers == 1

(* The mock batch returned by fetchProducts has six entries. *)
BatchSize == 6

-----------------------------------------------------------------------------
(* JSON text is a sequence of tokens; a value token carries its payload. *)

Tok(t, v) == [t |-> t, v |-> v]
P(s) == Tok(s, 0)

(* JavaScript values held by state.cart: an array of line items, or        *)
(* whatever else the persisted text parsed to.                             *)
JsArray(items) == [kind |-> "array", items |-> items]
JsObject == [kind |-> "object", items |-> <<>>]
JsNull == [kind |-> "null", items |-> <<>>]

Truthy(v) == v.kind # "null"

(* One line item {...product, quantity} as JSON.stringify writes it. *)
ItemText(it) ==
  << P("{"), P("id"), Tok("val", it.id), P("name"), Tok("val", it.name),
     P("quantity"), Tok("val", it.quantity), P("}") >>

RECURSIVE ItemsText(_)
ItemsText(items) ==
  IF items = <<>> THEN <<>>
  ELSE IF Len(items) = 1 THEN ItemText(items[1])
  ELSE ItemText(items[1]) \o <<P(",")>> \o ItemsText(Tail(items))

JSONstringify(v) ==
  IF v.kind = "array" THEN <<P("[")>> \o ItemsText(v.items) \o <<P("]")>>
  ELSE IF v.kind = "object" THEN <<P("{"), P("}")>>
  ELSE <<P("null")>>

(* The number of tokens of one line item. *)
ItemLen == Len(ItemText([id |-> 0, name |-> 0, quantity |-> 0]))

IsItemAt(t, i) ==
  /\ i + ItemLen - 1 <= Len(t)
  /\ t[i].t = "{"
  /\ t[i + 1].t = "id"
  /\ t[i + 2].t = "val"
  /\ t[i + 3].t = "name"
  /\ t[i + 4].t = "val"
  /\ t[i + 5].t = "quantity"
  /\ t[i + 6].t = "val"
  /\ t[i + 7].t = "}"

ItemAt(t, i) == [id |-> t[i + 2].v, name |-> t[i + 4].v, quantity |-> t[i + 6].v]

SyntaxError == [ok |-> FALSE, value |-> JsNull]
Parsed(v) == [ok |-> TRUE, value |-> v]

RECURSIVE ParseElements(_, _, _)
ParseElements(t, i, acc) ==
  IF ~IsItemAt(t, i) THEN SyntaxError
  ELSE LET acc2 == Append(acc, ItemAt(t, i))
           j == i + ItemLen
       IN IF j = Len(t) /\ t[j].t = "]" THEN Parsed(JsArray(acc2))
          ELSE IF j < Len(t) /\ t[j].t = "," THEN ParseElements(t, j + 1, acc2)
          ELSE SyntaxError

(* JSON.parse of a stored string; JSON.parse(null) is null. *)
JSONparse(stored) ==
  IF ~stored.present THEN Parsed(JsNull)
  ELSE LET t == stored.text IN
    IF t = <<P("null")>> THEN Parsed(JsNull)
    ELSE IF t = <<P("{"), P("}")>> THEN Parsed(JsObject)
    ELSE IF t = <<P("["), P("]")>> THEN Parsed(JsArray(<<>>))
    ELSE IF Len(t) >= 1 /\ t[1].t = "[" THEN ParseElements(t, 2, <<>>)
    ELSE SyntaxError

-----------------------------------------------------------------------------
(* Persisted storage *)

Absent == [present |-> FALSE, text |-> ""]
Str(s) == [present |-> TRUE, text |-> s]
AbsentCart == [present |-> FALSE, text |-> <<>>]
CartText(t) == [present |-> TRUE, text |-> t]

StoredThemes == {Absent, Str(""), Str("light"), Str("dark"), Str("blue")}

StoredCarts ==
  { AbsentCart, CartText(<<P("null")>>), CartText(<<P("{"), P("}")>>),
    CartText(<<P("{")>>) }

-----------------------------------------------------------------------------
(* The world a handler acts on *)

NoState ==
  [theme |-> "", cart |-> JsNull, products |-> <<>>, isLoading |-> FALSE,
   currentPage |-> 0, productsPerPage |-> 0]

FreshButton == [disabled |-> FALSE, display |-> "", textContent |-> ""]
FreshCount == [set |-> FALSE, value |-> 0]
NoRequest == [outcome |-> "none", page |-> 0, products |-> 0]

World ==
  [state |-> state, localStorage |-> localStorage, dataTheme |-> dataTheme,
   loadMoreBtn |-> loadMoreBtn, cartCount |-> cartCount,
   fetchPending |-> fetchPending, fault |-> fault, nextId |-> nextId,
   formFields |-> formFields, debounce |-> debounce, submitBtn |-> submitBtn,
   pendingSends |-> pendingSends]

Commit(w) ==
  /\ state' = w.state
  /\ localStorage' = w.localStorage
  /\ dataTheme' = w.dataTheme
  /\ loadMoreBtn' = w.loadMoreBtn
  /\ cartCount' = w.cartCount
  /\ fetchPending' = w.fetchPending
  /\ fault' = w.fault
  /\ nextId' = w.nextId
  /\ formFields' = w.formFields
  /\ debounce' = w.debounce
  /\ submitBtn' = w.submitBtn
  /\ pendingSends' = w.pendingSends

-----------------------------------------------------------------------------
(* Theme store *)

(* setTheme without the localStorage write. *)
setThemeUnsaved(w, theme) ==
  [w EXCEPT !.state.theme = theme, !.dataTheme = Str(theme)]

setTheme(w, theme) ==
  [w EXCEPT !.state.theme = theme,
            !.dataTheme = Str(theme),
            !.localStorage.theme = Str(theme)]

newTheme(theme) == IF theme = "light" THEN "dark" ELSE "light"

toggleTheme(w) == setTheme(w, newTheme(w.state.theme))

ThemeTriple(w) ==
  [theme |-> w.state.theme, applied |-> w.dataTheme, stored |-> w.localStorage.theme]

-----------------------------------------------------------------------------
(* Cart store *)

RECURSIVE FindIndex(_, _, _)
FindIndex(items, id, i) ==
  IF i > Len(items) THEN 0
  ELSE IF items[i].id = id THEN i
  ELSE FindIndex(items, id, i + 1)

(* addToCart without the lookup: every add pushes a line item. *)
CartAfterAddNoLookup(items, product) ==
  Append(items, [id |-> product.id, name |-> product.name, quantity |-> 1])

(* addToCart putting a new line item in front (unshift for push). *)
CartAfterAddUnshift(items, product) ==
  LET i == FindIndex(items, product.id, 1) IN
  IF i # 0 THEN [items EXCEPT ![i].quantity = @ + 1]
  ELSE <<[id |-> product.id, name |-> product.name, quantity |-> 1]>> \o items

(* The mutation of addToCart, lines 450-459. *)
CartAfterAdd(items, product) ==
  LET i == FindIndex(items, product.id, 1) IN
  IF i # 0 THEN [items EXCEPT ![i].quantity = @ + 1]
  ELSE Append(items, [id |-> product.id, name |-> product.name, quantity |-> 1])

(* The reduce counting line items instead of adding quantities. *)
TotalItemsCountsLines(items) == Len(items)

RECURSIVE TotalItems(_)
TotalItems(items) ==
  IF items = <<>> THEN 0
  ELSE Head(items).quantity + TotalItems(Tail(items))

(* state.cart.reduce(...) and state.cart.find(...) exist only on arrays. *)
updateCartCount(w) ==
  IF w.state.cart.kind # "array" THEN [w EXCEPT !.fault = "TypeError"]
  ELSE [w EXCEPT !.cartCount = [set |-> TRUE, value |-> TotalItems(w.state.cart.items)]]

(* saveCart leaving the persisted value as it was. *)
saveCartSkipped(w) == w

saveCart(w) ==
  [w EXCEPT !.localStorage.cart = CartText(JSONstringify(w.state.cart))]

addToCart(w, product) ==
  IF w.state.cart.kind # "array" THEN [w EXCEPT !.fault = "TypeError"]
  ELSE saveCart(updateCartCount(
         [w EXCEPT !.state.cart.items = CartAfterAdd(@, product)]))

-----------------------------------------------------------------------------
(* Catalog loader *)

showLoadingState(w) ==
  [w EXCEPT !.loadMoreBtn.disabled = TRUE, !.loadMoreBtn.textContent = "Loading..."]

hideLoadingState(w) ==
  [w EXCEPT !.loadMoreBtn.disabled = FALSE,
            !.loadMoreBtn.textContent = "Load More Products"]

(* The cutoff one page late. *)
updateLoadMoreButtonLate(w) ==
  IF w.state.currentPage >= 3 THEN [w EXCEPT !.loadMoreBtn.display = "none"] ELSE w

updateLoadMoreButton(w) ==
  IF w.state.currentPage >= 2 THEN [w EXCEPT !.loadMoreBtn.display = "none"] ELSE w

(* The batch fetchProducts resolves with: six records, each with a newly   *)
(* generated identifier.                                                   *)
mockProducts(first) == [k \in 1..BatchSize |-> [id |-> first + k - 1, name |-> k]]

(* loadProducts without the isLoading early return. *)
loadProductsUnguarded(w) ==
  [showLoadingState([w EXCEPT !.state.isLoading = TRUE]) EXCEPT !.fetchPending = @ + 1]

(* loadProducts up to its await. *)
loadProducts(w) ==
  IF w.state.isLoading THEN w
  ELSE [showLoadingState([w EXCEPT !.state.isLoading = TRUE]) EXCEPT !.fetchPending = @ + 1]

(* loadProducts from the await on, when the fetch resolved. *)
loadResolved(w) ==
  LET got == mockProducts(w.nextId)
      w1 == [w EXCEPT !.state.products = @ \o got,
                      !.nextId = @ + BatchSize,
                      !.fetchPending = @ - 1]
      w2 == updateLoadMoreButton(w1)
  IN hideLoadingState([w2 EXCEPT !.state.isLoading = FALSE])

(* loadProducts from the await on, when the fetch rejected. *)
loadRejected(w) ==
  hideLoadingState([w EXCEPT !.state.isLoading = FALSE, !.fetchPending = @ - 1])

loadMoreClick(w) ==
  loadProducts([w EXCEPT !.state.currentPage = @ + 1])

-----------------------------------------------------------------------------
(* Contact form *)

(* A field value is a sequence of characters. *)
RECURSIVE Rep(_, _)
Rep(c, n) == IF n = 0 THEN <<>> ELSE <<c>> \o Rep(c, n - 1)

IsSpace(c) == c = " "

RECURSIVE trimStart(_)
trimStart(s) == IF s # <<>> /\ IsSpace(Head(s)) THEN trimStart(Tail(s)) ELSE s

RECURSIVE trimEnd(_)
trimEnd(s) ==
  IF s # <<>> /\ IsSpace(s[Len(s)]) THEN trimEnd(SubSeq(s, 1, Len(s) - 1)) ELSE s

trim(s) == trimEnd(trimStart(s))

(* /^[^\s@]+@[^\s@]+\.[^\s@]+$/ *)
emailRegexTest(s) ==
  \E i \in 2..Len(s) : \E j \in (i + 2)..(Len(s) - 1) :
    /\ s[i] = "@"
    /\ s[j] = "."
    /\ \A k \in (1..Len(s)) \ {i} : ~IsSpace(s[k]) /\ s[k] # "@"

Fields == {"name", "email", "message"}

(* The inputs in document order. *)
Inputs == <<"name", "email", "message">>

getFieldLabel(fieldName) ==
  CASE fieldName = "name" -> "Name"
    [] fieldName = "email" -> "Email"
    [] fieldName = "message" -> "Message"
    [] OTHER -> fieldName

(* An error message: a fixed text, after the field's label where it has one. *)
Message(label, text) == [label |-> label, text |-> text]
NoMessage == Message("", "")

(* The checks of validateField, lines 589-619, with the name rule one off. *)
FieldCheckNameOff(fieldName, field) ==
  LET value == trim(field.value)
      r0 == [isValid |-> TRUE, errorMessage |-> NoMessage]
      r1 == IF field.required /\ value = <<>>
            THEN [isValid |-> FALSE,
                  errorMessage |-> Message(getFieldLabel(fieldName), " is required.")]
            ELSE r0
      r2 == IF fieldName = "email" /\ value # <<>> /\ ~emailRegexTest(value)
            THEN [isValid |-> FALSE,
                  errorMessage |-> Message("", "Please enter a valid email address.")]
            ELSE r1
      r3 == IF fieldName = "name" /\ value # <<>> /\ Len(value) <= 2
            THEN [isValid |-> FALSE,
                  errorMessage |-> Message("", "Name must be at least 2 characters long.")]
            ELSE r2
  IN IF fieldName = "message" /\ value # <<>> /\ Len(value) < 10
     THEN [isValid |-> FALSE,
           errorMessage |-> Message("", "Message must be at least 10 characters long.")]
     ELSE r3

(* The checks of validateField, lines 589-619: each later rule that fails  *)
(* overwrites the result of the earlier ones.                              *)
FieldCheck(fieldName, field) ==
  LET value == trim(field.value)
      r0 == [isValid |-> TRUE, errorMessage |-> NoMessage]
      r1 == IF field.required /\ value = <<>>
            THEN [isValid |-> FALSE,
                  errorMessage |-> Message(getFieldLabel(fieldName), " is required.")]
            ELSE r0
      r2 == IF fieldName = "email" /\ value # <<>> /\ ~emailRegexTest(value)
            THEN [isValid |-> FALSE,
                  errorMessage |-> Message("", "Please enter a valid email address.")]
            ELSE r1
      r3 == IF fieldName = "name" /\ value # <<>> /\ Len(value) < 2
            THEN [isValid |-> FALSE,
                  errorMessage |-> Message("", "Name must be at least 2 characters long.")]
            ELSE r2
  IN IF fieldName = "message" /\ value # <<>> /\ Len(value) < 10
     THEN [isValid |-> FALSE,
           errorMessage |-> Message("", "Message must be at least 10 characters long.")]
     ELSE r3

(* clearFieldError hides the message; the error element keeps its text. *)
clearFieldError(w, f) ==
  [w EXCEPT !.formFields[f].error = FALSE, !.formFields[f].show = FALSE]

showFieldError(w, f, message) ==
  IF message # NoMessage
  THEN [w EXCEPT !.formFields[f].error = TRUE,
                 !.formFields[f].errorText = message,
                 !.formFields[f].show = TRUE]
  ELSE clearFieldError(w, f)

(* validateField: the flag it returns and the world it leaves. *)
validateField(w, f) ==
  LET r == FieldCheck(f, w.formFields[f])
  IN [isValid |-> r.isValid, w |-> showFieldError(w, f, r.errorMessage)]

(* validateForm stopping at the first invalid input. *)
RECURSIVE validateInputsShortCircuit(_, _, _)
validateInputsShortCircuit(w, i, isValid) ==
  IF i > Len(Inputs) \/ ~isValid THEN [isValid |-> isValid, w |-> w]
  ELSE IF ~w.formFields[Inputs[i]].required
       THEN validateInputsShortCircuit(w, i + 1, isValid)
       ELSE LET r == validateField(w, Inputs[i])
            IN validateInputsShortCircuit(r.w, i + 1, isValid /\ r.isValid)

(* The forEach of validateForm over the required inputs from the i-th on. *)
RECURSIVE validateInputs(_, _, _)
validateInputs(w, i, isValid) ==
  IF i > Len(Inputs) THEN [isValid |-> isValid, w |-> w]
  ELSE IF ~w.formFields[Inputs[i]].required THEN validateInputs(w, i + 1, isValid)
       ELSE LET r == validateField(w, Inputs[i])
            IN validateInputs(r.w, i + 1, isValid /\ r.isValid)

(* validateForm giving up at the first invalid input. *)
validateFormShortCircuit(w) == validateInputsShortCircuit(w, 1, TRUE)

validateForm(w) == validateInputs(w, 1, TRUE)

(* submitForm up to its await. *)
submitForm(w) ==
  [w EXCEPT !.pendingSends = Append(@, w.submitBtn.textContent),
            !.submitBtn = [disabled |-> TRUE, textContent |-> "Sending..."]]

handleFormSubmit(w) ==
  LET r == validateForm(w)
  IN IF r.isValid THEN submitForm(r.w) ELSE r.w

(* contactForm.reset(): every input back to its default value. *)
formReset(w) ==
  [w EXCEPT !.formFields = [f \in Fields |-> [@[f] EXCEPT !.value = <<>>]]]

(* submitForm from the await on, for the call that has waited longest. *)
sendCompleted(w) ==
  LET originalText == Head(w.pendingSends)
  IN [formReset(w) EXCEPT !.pendingSends = Tail(@),
                          !.submitBtn = [disabled |-> FALSE, textContent |-> originalText]]

(* The debounced input listener: (re)starts the input's timer. *)
inputEvent(w, f, value) ==
  [w EXCEPT !.formFields[f].value = value, !.debounce = @ \cup {f}]

debounceFired(w, f) ==
  [clearFieldError(w, f) EXCEPT !.debounce = @ \ {f}]

(* The form as the document gives it. *)
SubmitLabel == "Send Message"
FreshSubmit == [disabled |-> FALSE, textContent |-> SubmitLabel]
FreshFields(required) ==
  [f \in Fields |-> [value |-> <<>>, required |-> f \in required, error |-> FALSE,
                     errorText |-> NoMessage, show |-> FALSE]]
NoEvent == "none"

(* What gets typed into each input. *)
Typed(f) ==
  CASE f = "name" -> {<<" ", "J">>, <<" ", "J", "o", " ">>}
    [] f = "email" -> {<<"a", "@", "b">>, <<"a", "@", "b", ".", "c", "o">>}
    [] f = "message" -> {Rep("m", 9) \o <<" ">>, Rep("m", 10)}

(* The markup's choice of required inputs. *)
RequiredSets == {Fields, {"name", "email"}}

-----------------------------------------------------------------------------
(* Actions *)

(* The page before its script runs, but for what is persisted and for    *)
(* the markup of the form.                                                 *)
FreshPage ==
  /\ pc = "unloaded"
  /\ state = NoState
  /\ dataTheme = Absent
  /\ loadMoreBtn = FreshButton
  /\ cartCount = FreshCount
  /\ fetchPending = 0
  /\ fault = "none"
  /\ nextId = 1
  /\ restarts = 0
  /\ toggleTrace = <<>>
  /\ lastRequest = NoRequest
  /\ debounce = {}
  /\ submitBtn = FreshSubmit
  /\ pendingSends = <<>>
  /\ lastEvent = NoEvent

Init ==
  /\ FreshPage
  /\ localStorage \in [theme : StoredThemes, cart : StoredCarts]
  /\ formFields = FreshFields(Fields)

(* Evaluation of the script's top level: the state object is built from    *)
(* localStorage; a throwing JSON.parse aborts the script.                  *)
EvalScript ==
  /\ pc = "unloaded"
  /\ LET parsed == JSONparse(localStorage.cart)
         stored == localStorage.theme
     IN IF ~parsed.ok
        THEN /\ pc' = "crashed"
             /\ fault' = "SyntaxError"
             /\ UNCHANGED state
        ELSE /\ pc' = "evaluated"
             /\ fault' = fault
             /\ state' =
                  [theme |-> IF stored.present /\ stored.text # "" THEN stored.text
                             ELSE "light",
                   cart |-> IF Truthy(parsed.value) THEN parsed.value ELSE JsArray(<<>>),
                   products |-> <<>>,
                   isLoading |-> FALSE,
                   currentPage |-> 1,
                   productsPerPage |-> BatchSize]
  /\ UNCHANGED <<localStorage, dataTheme, loadMoreBtn, cartCount, fetchPending,
                 formFields, debounce, submitBtn, pendingSends,
                 nextId, restarts, lastEvent, toggleTrace, lastRequest>>

(* The DOMContentLoaded handler: themeManager.init, productManager.init,   *)
(* then updateCartCount.  The listeners are bound before updateCartCount   *)
(* runs, so the page is interactive even when that call throws.            *)
DOMContentLoaded ==
  /\ pc = "evaluated"
  /\ Commit(updateCartCount(loadProducts(setTheme(World, state.theme))))
  /\ pc' = "ready"
  /\ lastRequest' = [outcome |-> "pending", page |-> state.currentPage,
                     products |-> Len(state.products)]
  /\ UNCHANGED <<restarts, lastEvent, toggleTrace>>

(* Click on the theme toggle. *)
ToggleTheme ==
  /\ pc = "ready"
  /\ Commit(toggleTheme(World))
  /\ toggleTrace' = IF Len(toggleTrace) < 2 THEN Append(toggleTrace, ThemeTriple(World))
                    ELSE <<toggleTrace[2], ThemeTriple(World)>>
  /\ UNCHANGED <<pc, restarts, lastEvent, lastRequest>>

(* Click on a product card's add-to-cart button. *)
AddToCart(product) ==
  /\ pc = "ready"
  /\ state.cart.kind = "array" => TotalItems(state.cart.items) < MaxCartItems
  /\ Commit(addToCart(World, product))
  /\ UNCHANGED <<pc, restarts, lastEvent, toggleTrace, lastRequest>>

(* Click on the load-more button; a disabled or hidden button receives no  *)
(* click.                                                                  *)
LoadMoreClick ==
  /\ pc = "ready"
  /\ ~loadMoreBtn.disabled
  /\ loadMoreBtn.display # "none"
  /\ state.currentPage < MaxPage
  /\ Commit(loadMoreClick(World))
  /\ lastRequest' = [outcome |-> IF state.isLoading THEN "nofetch" ELSE "pending",
                     page |-> state.currentPage, products |-> Len(state.products)]
  /\ UNCHANGED <<pc, restarts, lastEvent, toggleTrace>>

(* The awaited fetchProducts() settles.  It stands for an API call, and   *)
(* loadProducts handles both outcomes: the try block on a resolved fetch,  *)
(* the catch block on a rejected one.                                      *)
FetchResolve ==
  /\ pc = "ready"
  /\ fetchPending > 0
  /\ Commit(loadResolved(World))
  /\ lastRequest' = [lastRequest EXCEPT !.outcome = "loaded"]
  /\ UNCHANGED <<pc, restarts, lastEvent, toggleTrace>>

FetchReject ==
  /\ pc = "ready"
  /\ fetchPending > 0
  /\ Commit(loadRejected(World))
  /\ lastRequest' = [lastRequest EXCEPT !.outcome = "failed"]
  /\ UNCHANGED <<pc, restarts, lastEvent, toggleTrace>>

(* Page reload: the document and the script start over; localStorage stays. *)
Restart ==
  /\ pc \in {"ready", "crashed"}
  /\ restarts < MaxRestarts
  /\ restarts' = restarts + 1
  /\ pc' = "unloaded"
  /\ state' = NoState
  /\ dataTheme' = Absent
  /\ loadMoreBtn' = FreshButton
  /\ cartCount' = FreshCount
  /\ fetchPending' = 0
  /\ fault' = "none"
  /\ toggleTrace' = <<>>
  /\ lastRequest' = NoRequest
  /\ formFields' = FreshFields({f \in Fields : formFields[f].required})
  /\ debounce' = {}
  /\ submitBtn' = FreshSubmit
  /\ pendingSends' = <<>>
  /\ lastEvent' = NoEvent
  /\ UNCHANGED <<localStorage, nextId>>

Rendered == {state.products[i] : i \in 1..Len(state.products)}

(* The cards that get clicked: the first MaxCards of every batch. *)
Clicked == {product \in Rendered : product.name <= MaxCards}

(* The theme store and the cart store share no field of the state, of    *)
(* localStorage or of the document, so each is explored with the catalog   *)
(* loader on its own: Spec is the page with its cart, PageSpec the page    *)
(* with its theme toggle, FormSpec the page with its contact form.         *)
Next ==
  \/ EvalScript
  \/ DOMContentLoaded
  \/ \E product \in Clicked : AddToCart(product)
  \/ LoadMoreClick
  \/ FetchResolve
  \/ FetchReject
  \/ Restart

Spec == Init /\ [][Next]_vars

(* Form events.  The listeners are bound by formManager.init.              *)
Blur(f) ==
  /\ pc = "ready"
  /\ Commit(validateField(World, f).w)
  /\ lastEvent' = "other"
  /\ UNCHANGED <<pc, restarts, toggleTrace, lastRequest>>

TypeInto(f, value) ==
  /\ pc = "ready"
  /\ f \in debounce \/ Cardinality(debounce) < MaxTimers
  /\ Commit(inputEvent(World, f, value))
  /\ lastEvent' = "other"
  /\ UNCHANGED <<pc, restarts, toggleTrace, lastRequest>>

DebounceFire(f) ==
  /\ pc = "ready"
  /\ f \in debounce
  /\ Commit(debounceFired(World, f))
  /\ lastEvent' = "other"
  /\ UNCHANGED <<pc, restarts, toggleTrace, lastRequest>>

(* A submit event on the form; the listener asks nothing about sends that  *)
(* are still pending.                                                      *)
SubmitEvent ==
  /\ pc = "ready"
  /\ Len(pendingSends) < MaxPendingSends
  /\ Commit(handleFormSubmit(World))
  /\ lastEvent' = "submit"
  /\ UNCHANGED <<pc, restarts, toggleTrace, lastRequest>>

SendComplete ==
  /\ pc = "ready"
  /\ pendingSends # <<>>
  /\ Commit(sendCompleted(World))
  /\ lastEvent' = "other"
  /\ UNCHANGED <<pc, restarts, toggleTrace, lastRequest>>

(* The page with nothing persisted, and its contact form. *)
FormInit ==
  /\ FreshPage
  /\ localStorage = [theme |-> Absent, cart |-> AbsentCart]
  /\ formFields \in {FreshFields(required) : required \in RequiredSets}

FormNext ==
  \/ EvalScript
  \/ DOMContentLoaded
  \/ \E f \in Fields : Blur(f)
  \/ \E f \in Fields : \E value \in Typed(f) : TypeInto(f, value)
  \/ \E f \in Fields : DebounceFire(f)
  \/ SubmitEvent
  \/ SendComplete

FormSpec == FormInit /\ [][FormNext]_vars

PageNext ==
  \/ EvalScript
  \/ DOMContentLoaded
  \/ ToggleTheme
  \/ LoadMoreClick
  \/ FetchResolve
  \/ FetchReject
  \/ Restart

PageSpec == Init /\ [][PageNext]_vars

(* The timer behind an awaited fetch fires, so a pending fetch settles. *)
FetchSettle == FetchResolve \/ FetchReject

FairSpec == PageSpec /\ WF_vars(FetchSettle)

-----------------------------------------------------------------------------
(* Properties *)

IsCart == pc \in {"evaluated", "ready"} /\ state.cart.kind = "array"
Items == state.cart.items
Light == "light"
Dark == "dark"

(* C1: in every state reached from an empty cart by addToCart calls, the   *)
(* cart holds at most one line item per product identifier.                *)
C1_OneLinePerProduct ==
  IsCart => \A i, j \in 1..Len(Items) : Items[i].id = Items[j].id => i = j

(* A repeat add has happened next to a line item of another product. *)
C1_Witness ==
  /\ IsCart
  /\ Len(Items) = 2
  /\ \E i \in 1..Len(Items) : Items[i].quantity = 2

(* What addToCart(product) must leave, stated on the step. *)
AddPost(product) ==
  LET old == state.cart.items
      new == state'.cart.items
  IN IF \E i \in 1..Len(old) : old[i].id = product.id
     THEN /\ Len(new) = Len(old)
          /\ \A k \in 1..Len(old) :
               /\ new[k].id = old[k].id
               /\ new[k].quantity =
                    old[k].quantity + (IF old[k].id = product.id THEN 1 ELSE 0)
     ELSE /\ Len(new) = Len(old) + 1
          /\ SubSeq(new, 1, Len(old)) = old
          /\ new[Len(new)].id = product.id
          /\ new[Len(new)].quantity = 1

(* C2: addToCart(product) increments the quantity of the line item with    *)
(* that identifier by exactly 1, leaving length and order alone, or, when  *)
(* there is none, appends a line item of quantity 1 at the end.            *)
C2_AddIncrementsOrAppends ==
  [][\A product \in Rendered :
       (AddToCart(product) /\ state.cart.kind = "array") => AddPost(product)]_vars

(* The same product added twice to an empty cart, in the first session. *)
C2_Witness ==
  /\ IsCart
  /\ restarts = 0
  /\ Len(Items) = 1
  /\ Items[1].quantity = 2

(* The sum of the quantities, counted from the last line item. *)
RECURSIVE QuantitySum(_, _)
QuantitySum(items, n) ==
  IF n = 0 THEN 0 ELSE items[n].quantity + QuantitySum(items, n - 1)

(* C3: after initialization and after every addToCart, the item count      *)
(* shown equals the sum of the quantities of the line items in the cart.   *)
C3_CountIsSumOfQuantities ==
  (pc = "ready" /\ state.cart.kind = "array") =>
     /\ cartCount.set
     /\ cartCount.value = QuantitySum(Items, Len(Items))

(* A count that differs from the number of line items. *)
C3_Witness ==
  /\ pc = "ready"
  /\ state.cart.kind = "array"
  /\ Len(Items) = 2
  /\ cartCount.value = 3

(* The (productId, quantity) pairs of a cart value. *)
Pairs(v) == {<<v.items[i].id, v.items[i].quantity>> : i \in 1..Len(v.items)}

(* The cart a restart would load from the persisted value. *)
Reloaded ==
  LET parsed == JSONparse(localStorage.cart)
  IN IF parsed.ok /\ Truthy(parsed.value) THEN parsed.value ELSE JsArray(<<>>)

(* C4: the persisted cart, reloaded, gives the (productId, quantity) pairs *)
(* of the in-memory cart; the persisted value never lags a completed add.  *)
C4_PersistedCartRoundTrips ==
  (pc = "ready" /\ state.cart.kind = "array") =>
     /\ JSONparse(localStorage.cart).ok
     /\ Reloaded.kind = "array"
     /\ Pairs(Reloaded) = Pairs(state.cart)

(* A cart saved by one session, reloaded by the next and added to again. *)
C4_Witness ==
  /\ pc = "ready"
  /\ restarts = 1
  /\ state.cart.kind = "array"
  /\ \E i \in 1..Len(Items) :
       /\ Items[i].quantity = 2
       /\ \A product \in Rendered : product.id # Items[i].id
  /\ \E i \in 1..Len(Items) : \E product \in Rendered : product.id = Items[i].id

WellFormedCart(stored) ==
  /\ stored.present
  /\ JSONparse(stored).ok
  /\ JSONparse(stored).value.kind = "array"

(* C5: loading the initial cart fails closed: an absent, unparseable or    *)
(* ill-shaped persisted value gives an empty cart and raises no fault.     *)
C5_LoadFailsClosed ==
  (pc # "unloaded" /\ ~WellFormedCart(localStorage.cart)) =>
     /\ pc # "crashed"
     /\ fault = "none"
     /\ state.cart = JsArray(<<>>)

(* C6: state.theme, the applied theme and the persisted theme are each     *)
(* light or dark, whatever was found in storage at startup.                *)
C6_ThemeIsLightOrDark ==
  pc = "ready" =>
     /\ state.theme \in {Light, Dark}
     /\ dataTheme \in {Str(Light), Str(Dark)}
     /\ localStorage.theme \in {Str(Light), Str(Dark)}

(* C7: two consecutive toggleTheme calls leave state.theme, the applied    *)
(* theme and the persisted theme as they were before the first call.       *)
C7_ToggleTwiceIsIdentity ==
  (pc = "ready" /\ Len(toggleTrace) = 2) => ThemeTriple(World) = toggleTrace[1]

(* C8: once themeManager.init has run, the persisted theme equals the      *)
(* applied theme, which equals state.theme.                                *)
C8_PersistedThemeIsApplied ==
  pc = "ready" =>
     /\ localStorage.theme = dataTheme
     /\ dataTheme = Str(state.theme)

(* A toggled theme, where storage held another value at startup. *)
C8_Witness ==
  /\ pc = "ready"
  /\ Len(toggleTrace) = 1
  /\ state.theme = Dark
  /\ toggleTrace[1].stored = Str(Light)

(* C9: the page counter advances only on a confirmed successful load: a   *)
(* load request that has not (or not yet) ended in a successful load, its  *)
(* fetch having failed or never started, leaves state.currentPage and the  *)
(* catalog as they were before the request.                                *)
C9_PageAdvancesOnlyOnSuccess ==
  (pc = "ready" /\ lastRequest.outcome \in {"pending", "failed", "nofetch"}) =>
     /\ state.currentPage = lastRequest.page
     /\ Len(state.products) = lastRequest.products

(* C10: the catalog never holds more than two batches; the load-more       *)
(* control is hidden only once the page-2 load has appended, and no load   *)
(* is in flight after that.                                                *)
C10_CatalogCapped ==
  /\ Len(state.products) <= 2 * BatchSize
  /\ loadMoreBtn.display = "none" =>
       /\ state.currentPage >= 2
       /\ Len(state.products) >= BatchSize
       /\ fetchPending = 0
       /\ ~state.isLoading

(* Both batches loaded and the control hidden. *)
C10_Witness ==
  /\ pc = "ready"
  /\ Len(state.products) = 2 * BatchSize
  /\ loadMoreBtn.display = "none"
  /\ state.currentPage = 2

(* At most one fetch is awaited, exactly while isLoading is set, and a     *)
(* loadProducts call made meanwhile changes nothing.                       *)
LoadsExclusive ==
  pc = "ready" =>
     /\ fetchPending <= 1
     /\ state.isLoading <=> fetchPending = 1
     /\ state.isLoading => loadProducts(World) = World

(* C13: catalog loads are mutually exclusive and always finish: at most    *)
(* one fetch is in flight, a loadProducts call made while isLoading is     *)
(* set does nothing, and every load that set isLoading resets it and       *)
(* re-enables the load-more control, whether its fetch succeeds or fails.  *)
C13_LoadsExclusiveAndFinish ==
  /\ []LoadsExclusive
  /\ (pc = "ready" /\ state.isLoading) ~> (~state.isLoading /\ ~loadMoreBtn.disabled)

(* A load-more request whose fetch failed, reset and re-enabled. *)
C13_Witness ==
  /\ pc = "ready"
  /\ lastRequest.outcome = "failed"
  /\ state.currentPage = 2
  /\ ~state.isLoading
  /\ ~loadMoreBtn.disabled
  /\ loadMoreBtn.textContent = "Load More Products"

(* A value without its leading and trailing spaces, by positions. *)
Trimmed(s) ==
  LET solid == {i \in 1..Len(s) : s[i] # " "}
  IN IF solid = {} THEN <<>>
     ELSE SubSeq(s, CHOOSE i \in solid : \A k \in solid : i <= k,
                    CHOOSE j \in solid : \A k \in solid : k <= j)

RequiredText == " is required."
NameText == "Name must be at least 2 characters long."
MessageText == "Message must be at least 10 characters long."

(* What validateField must return and leave for input f, on the step. *)
ValidatePost(f) ==
  LET field == formFields[f]
      n == Len(Trimmed(field.value))
      flag == validateField(World, f).isValid
      after == formFields'[f]
  IN /\ (field.required /\ n = 0) => ~flag
     /\ (after.show /\ after.errorText.text = RequiredText) <=> (field.required /\ n = 0)
     /\ (~field.required /\ n = 0) => flag
     /\ f = "name" => /\ n = 1 => ~flag
                      /\ n >= 2 => flag
     /\ f = "message" => /\ (n >= 1 /\ n <= 9) => ~flag
                         /\ n >= 10 => flag
     /\ ~flag <=> after.show
     /\ after.show => after.errorText # NoMessage

(* C11: validateField applies the rule table to the trimmed value: a       *)
(* required field fails the required rule iff it is empty after trimming;  *)
(* name fails at length 1 and passes from 2; message fails up to length 9  *)
(* and passes from 10; the flag is false exactly when an error message is  *)
(* shown for the field.                                                    *)
C11_ValidateFieldRules ==
  [][\A f \in Fields : Blur(f) => ValidatePost(f)]_vars

(* A name of trimmed length 1 rejected by validateField, next to a message *)
(* of trimmed length 10 that was rejected earlier and is accepted now.     *)
C11_Witness ==
  /\ pc = "ready"
  /\ Len(formFields["name"].value) = 2
  /\ Len(Trimmed(formFields["name"].value)) = 1
  /\ formFields["name"].show
  /\ formFields["name"].errorText.text = NameText
  /\ Len(Trimmed(formFields["message"].value)) = 10
  /\ ~formFields["message"].show
  /\ formFields["message"].errorText.text = MessageText

(* What a submit event must leave, on the step. *)
SubmitPost ==
  LET required == {f \in Fields : formFields[f].required}
      check(f) == FieldCheck(f, formFields[f])
      flag == validateForm(World).isValid
  IN /\ flag <=> \A f \in required : check(f).isValid
     /\ \A f \in required :
          /\ formFields'[f].show <=> ~check(f).isValid
          /\ ~check(f).isValid => formFields'[f].errorText = check(f).errorMessage
     /\ flag <=> Len(pendingSends') = Len(pendingSends) + 1
     /\ ~flag => pendingSends' = pendingSends /\ submitBtn' = submitBtn

(* C12: validateForm validates every required field, returns true iff all  *)
(* of them are valid, leaves every invalid required field with its own     *)
(* message shown and every valid one with none, and the send is started    *)
(* iff it returned true.                                                   *)
C12_ValidateFormChecksAll ==
  [][SubmitEvent => SubmitPost]_vars

(* A rejected submission: two invalid inputs, each with its own message,   *)
(* and a valid one without.                                                *)
C12_Witness ==
  /\ pc = "ready"
  /\ lastEvent = "submit"
  /\ pendingSends = <<>>
  /\ formFields["name"].show
  /\ formFields["email"].show
  /\ formFields["name"].errorText # formFields["email"].errorText
  /\ formFields["message"].required
  /\ Len(Trimmed(formFields["message"].value)) = 10
  /\ ~formFields["message"].show

(* C14: once all pending sends have completed, the submit button is        *)
(* enabled and shows the label it had before the first submission.         *)
C14_SubmitButtonRestored ==
  (pc = "ready" /\ pendingSends = <<>>) =>
     /\ ~submitBtn.disabled
     /\ submitBtn.textContent = SubmitLabel

====
